---- MODULE Spec2Model ----
(***************************************************************************)
(* Order intake, matching and settlement dispatch of the TASH order book   *)
(* API (src/app/api/orders/route.ts, src/lib/orders.ts).                   *)
(*                                                                         *)
(* The handlers run on one JavaScript event loop: the code between two     *)
(* awaits of a request runs without any other request's code in between.   *)
(* POST has three awaits (req.json, signTypedData, settleMatch), so one    *)
(* request is the steps Receive, SignResolve | SignReject and              *)
(* SettleResolve | SettleReject.                                           *)
(*                                                                         *)
(* Date.now() feeds nonce, expiry and createdAt alone, which no branch of   *)
(* POST reads: Spec keeps the clock still, SpecClock lets it run.  The     *)
(* signature is not modelled: nothing in the handlers reads it.            *)
(***************************************************************************)
EXTENDS Integers, Sequences, FiniteSets, TLC

\* ---------------------------------------------------------------- bounds

\* Number of POST invocations that can be suspended at an await at once.
MaxInFlight == 2

\* Number of SignedOrder objects one run of the server creates.
MaxOrders == 4

\* Number of times the clock advances in one run of the server.
MaxTicks == 2

\* Number of orders created in a run in which the clock advances.
MaxClockOrders == 2

\* Largest display price, in UsdDenom-ths of a dollar, that is converted.
MaxQuote == 24

\* An invocation of POST runs in a handler slot; a slot is free again once
\* its invocation has returned.
Handlers == 1..MaxInFlight

\* ------------------------------------------------------- request bodies

\* A field of the JSON body is <<>> when absent (undefined), <<v>> otherwise.
Undefined == <<>>

\* usdToUsdc multiplies by 1_000_000 (6 decimals).
UsdcScale == 1000000

\* Display prices are rationals v / UsdDenom dollars: quarters of a USDC unit.
UsdDenom == 4 * UsdcScale

\* defaultExpiry: Date.now() is in milliseconds, expiry in seconds, 24 hours
\* ahead.
MsPerSecond == 1000

ExpirySeconds == 86400

\* A request body with every required field present.
Body(userId, tokenId, priceUsd, isBuy, quantity) ==
    [userId |-> <<userId>>, tokenId |-> <<tokenId>>, priceUsd |-> <<priceUsd>>,
     isBuy |-> <<isBuy>>, quantity |-> <<quantity>>]

\* Display prices 4/UsdDenom = $0.000001 (1 unit) and 8/UsdDenom = $0.000002
\* (2 units): asks and bids at and one unit off each other on token 7, an
\* ask of another quantity and a bid on another token.
ValidBodies ==
    { Body("alice", 7, 4, FALSE, 1), Body("alice", 7, 8, FALSE, 1),
      Body("alice", 7, 4, TRUE, 1),  Body("alice", 7, 8, TRUE, 1),
      Body("alice", 7, 4, FALSE, 2), Body("alice", 8, 8, TRUE, 1) }

\* One body per way of failing the check of required fields.
InvalidBodies ==
    { [userId |-> Undefined, tokenId |-> <<7>>, priceUsd |-> <<4>>,
       isBuy |-> <<TRUE>>, quantity |-> <<1>>],
      [userId |-> <<"alice">>, tokenId |-> <<7>>, priceUsd |-> <<4>>,
       isBuy |-> <<FALSE>>, quantity |-> <<0>>] }

Bodies == ValidBodies \cup InvalidBodies

\* Bodies with a negative or zero price or quantity, next to an ask and a bid
\* that cross.
NegativeBodies ==
    { Body("alice", 7, 4, FALSE, 1), Body("alice", 7, 4, TRUE, 1),
      Body("alice", 7, -4, TRUE, 1),
      Body("alice", 7, 4, FALSE, -1), Body("alice", 7, 4, TRUE, -1),
      [userId |-> <<"alice">>, tokenId |-> <<7>>, priceUsd |-> <<0>>,
       isBuy |-> <<TRUE>>, quantity |-> <<1>>] }

\* Bodies with a price of a quarter of the smallest USDC unit.
RoundingBodies ==
    { Body("alice", 7, 1, FALSE, 1), Body("alice", 7, 1, TRUE, 1),
      Body("alice", 7, 4, TRUE, 1), Body("alice", 7, 4, FALSE, 1) }

\* An ask and a bid that cross.
CrossingBodies == {Body("alice", 7, 4, FALSE, 1), Body("alice", 7, 4, TRUE, 1)}

\* The crossing ask and bid of one user, and a bid of another.
UserBodies == CrossingBodies \cup {Body("bob", 7, 4, TRUE, 1)}

\* The crossing ask and bid, and the bodies that fail validation.
FairBodies == CrossingBodies \cup InvalidBodies

\* A crossing ask and bid on one token, and a bid on another.
ListingBodies == CrossingBodies \cup {Body("alice", 8, 8, TRUE, 1)}

\* ------------------------------------------------------ pure functions

\* !x for a string field: undefined and "" are falsy.
FalsyStr(x) == x = Undefined \/ x[1] = ""

\* !x for a number field: undefined and 0 are falsy.
FalsyNum(x) == x = Undefined \/ x[1] = 0

\* Boolean(x) for a boolean field.
Boolean(x) == x # Undefined /\ x[1]

\* Seeded fault: Math.floor for Math.round.
MathFloor(n, d) == n \div d

\* Math.round on the rational n / d (d > 0): floor(n/d + 1/2).
MathRound(n, d) == (2 * n + d) \div (2 * d)

usdToUsdc(usd) == MathRound(usd * UsdcScale, UsdDenom)

\* Seeded fault: the division of bigints, which drops the fraction.
usdcToUsdWhole(usdc) == (usdc \div UsdcScale) * UsdDenom

\* Number(usdc) / 1_000_000, as a display price: a count of UsdDenom-ths of
\* a dollar, which holds every multiple of 1 / UsdcScale exactly.
usdcToUsd(usdc) == (usdc * UsdDenom) \div UsdcScale

\* Seeded fault: the key derived from the master key alone.
deriveUserKeyShared(userId) == <<"key", "master">>

\* keccak256 and privateKeyToAccount: a fixed, one-to-one key and address.
deriveUserKey(userId) == <<"key", userId>>

getUserAccount(userId) == [address |-> <<"addr", deriveUserKey(userId)>>]

\* The null of findMatch and of not yet assigned locals.
Null == [id |-> 0]

\* Seeded fault: the callback without the price comparison.
IsCandidateNoCrossing(c, order) ==
    /\ c.tokenId = order.tokenId
    /\ c.isBuy # order.isBuy
    /\ c.quantity = order.quantity

\* Seeded fault: the callback without the quantity comparison.
IsCandidateAnyQuantity(c, order) ==
    /\ c.tokenId = order.tokenId
    /\ c.isBuy # order.isBuy
    /\ IF order.isBuy THEN order.priceUsdc >= c.priceUsdc
                      ELSE c.priceUsdc >= order.priceUsdc

\* Seeded fault: the callback with > for >=.
IsCandidateStrict(c, order) ==
    /\ c.tokenId = order.tokenId
    /\ c.isBuy # order.isBuy
    /\ c.quantity = order.quantity
    /\ IF order.isBuy THEN order.priceUsdc > c.priceUsdc
                      ELSE c.priceUsdc > order.priceUsdc

\* Seeded fault: the callback passing over the orders of the same maker.
IsCandidateOtherMaker(c, order) ==
    /\ c.tokenId = order.tokenId
    /\ c.isBuy # order.isBuy
    /\ c.quantity = order.quantity
    /\ c.maker # order.maker
    /\ IF order.isBuy THEN order.priceUsdc >= c.priceUsdc
                      ELSE c.priceUsdc >= order.priceUsdc

\* The matching rule of findMatch's callback.
IsCandidate(c, order) ==
    /\ c.tokenId = order.tokenId
    /\ c.isBuy # order.isBuy
    /\ c.quantity = order.quantity
    /\ IF order.isBuy THEN order.priceUsdc >= c.priceUsdc
                      ELSE c.priceUsdc >= order.priceUsdc

\* Seeded fault: the callback applied to the first element alone.
findMatchHead(incoming, book) ==
    IF book # <<>> /\ IsCandidate(book[1], incoming) THEN book[1] ELSE Null

\* Seeded fault: findLast for find.
findLastMatch(incoming, book) ==
    LET hits == {i \in 1..Len(book) : IsCandidate(book[i], incoming)}
    IN  IF hits = {} THEN Null
        ELSE book[CHOOSE i \in hits : \A j \in hits : i >= j]

\* Array.prototype.find: the first element satisfying the callback, or null.
findMatch(incoming, book) ==
    LET hits == {i \in 1..Len(book) : IsCandidate(book[i], incoming)}
    IN  IF hits = {} THEN Null
        ELSE book[CHOOSE i \in hits : \A j \in hits : i <= j]

\* Seeded fault: the entry is looked up by a copy, which indexOf never finds.
indexOfCopy(book, entry) == 0

\* Array.prototype.indexOf by object identity; 0 stands for -1.
indexOf(book, entry) ==
    LET hits == {i \in 1..Len(book) : book[i].id = entry.id}
    IN  IF hits = {} THEN 0 ELSE CHOOSE i \in hits : \A j \in hits : i <= j

\* Seeded fault: slice for splice, which leaves the array as it is.
sliceForSplice(book, idx) == book

\* orderBook.splice(idx, 1) guarded by idx !== -1.
splice(book, idx) ==
    IF idx = 0 THEN book
    ELSE [i \in 1..(Len(book) - 1) |-> IF i < idx THEN book[i] ELSE book[i + 1]]

\* Seeded fault: the entry pushed twice.
pushTwice(book, entry) == Append(Append(book, entry), entry)

\* Seeded fault: unshift for push.
unshift(book, entry) == <<entry>> \o book

\* orderBook.push(entry).
push(book, entry) == Append(book, entry)

\* ---------------------------------------------------------------- state

VARIABLES
    orderBook,    \* the module-level array of resting SignedOrders
    created,      \* number of SignedOrder objects created so far
    pc,           \* per handler: "idle", "signing", "settling"
    order,        \* per handler: the Order built from the body, with its
                  \*   bookkeeping fields
    signedOrder,  \* per handler: the SignedOrder object
    match,        \* per handler: the result of findMatch
    buyEntry,     \* per handler: first argument of settleMatch
    sellEntry,    \* per handler: second argument of settleMatch
    response,     \* the response sent by the last step and the handler that
                  \*   sent it; Null when the last step sent none
    settled,      \* ids of the orders the settlement authority has settled
    now,          \* Date.now(), in milliseconds since the server started
    attempts,     \* per handler: calls of settleMatch its invocation has made
    logged,       \* the arguments of console.error in the last step, <<>>
                  \*   when the last step logged nothing
    quote,        \* a price under conversion by usdToUsdc and usdcToUsd
    bookAtMatch   \* per handler: orderBook as findMatch read it (history)

vars == <<orderBook, created, pc, order, signedOrder, match, buyEntry,
          sellEntry, response, settled, now, attempts, logged, quote,
          bookAtMatch>>

Init ==
    /\ orderBook = <<>>
    /\ created = 0
    /\ pc = [h \in Handlers |-> "idle"]
    /\ order = [h \in Handlers |-> Null]
    /\ signedOrder = [h \in Handlers |-> Null]
    /\ match = [h \in Handlers |-> Null]
    /\ buyEntry = [h \in Handlers |-> Null]
    /\ sellEntry = [h \in Handlers |-> Null]
    /\ response = Null
    /\ settled = {}
    /\ now = 0
    /\ attempts = [h \in Handlers |-> 0]
    /\ logged = <<>>
    /\ quote = <<>>
    /\ bookAtMatch = [h \in Handlers |-> <<>>]

\* -------------------------------------------------------------- actions

\* The check of required fields.
MissingFields(b) ==
    \/ FalsyStr(b.userId)
    \/ b.tokenId = Undefined
    \/ FalsyNum(b.priceUsd)
    \/ b.isBuy = Undefined
    \/ FalsyNum(b.quantity)

defaultExpiry == now \div MsPerSecond + ExpirySeconds

\* The Order struct, with the request's fields that the SignedOrder keeps.
BuildOrder(b) ==
    [maker     |-> getUserAccount(b.userId[1]).address,
     tokenId   |-> b.tokenId[1],
     priceUsdc |-> usdToUsdc(b.priceUsd[1]),
     isBuy     |-> Boolean(b.isBuy),
     quantity  |-> b.quantity[1],
     nonce     |-> now,
     expiry    |-> defaultExpiry,
     userId    |-> b.userId[1],
     priceUsd  |-> b.priceUsd[1]]

\* The SignedOrder object around an Order; id is the identity of the object,
\* objects being numbered in the order of their creation.  No body carries a
\* cardName, so that cardName is the default label.
SignedOrderOf(o, n) ==
    [id        |-> n,
     maker     |-> o.maker,
     tokenId   |-> o.tokenId,
     priceUsdc |-> o.priceUsdc,
     isBuy     |-> o.isBuy,
     quantity  |-> o.quantity,
     nonce     |-> o.nonce,
     expiry    |-> o.expiry,
     createdAt |-> now,
     userId    |-> o.userId,
     cardName  |-> <<"Token #", o.tokenId>>,
     priceUsd  |-> o.priceUsd]

\* Seeded fault: the handler ending without NextResponse.json.
ReturnSilent(h, resp, http) ==
    /\ pc' = [pc EXCEPT ![h] = "idle"]
    /\ response' = Null
    /\ order' = [order EXCEPT ![h] = Null]
    /\ signedOrder' = [signedOrder EXCEPT ![h] = Null]
    /\ match' = [match EXCEPT ![h] = Null]
    /\ buyEntry' = [buyEntry EXCEPT ![h] = Null]
    /\ sellEntry' = [sellEntry EXCEPT ![h] = Null]
    /\ attempts' = [attempts EXCEPT ![h] = 0]
    /\ bookAtMatch' = [bookAtMatch EXCEPT ![h] = <<>>]

\* The handler returns NextResponse.json(resp, {status: http}): its locals
\* are gone and its slot is free.
Return(h, resp, http) ==
    /\ pc' = [pc EXCEPT ![h] = "idle"]
    /\ response' = [id |-> h, http |-> http, body |-> resp]
    /\ order' = [order EXCEPT ![h] = Null]
    /\ signedOrder' = [signedOrder EXCEPT ![h] = Null]
    /\ match' = [match EXCEPT ![h] = Null]
    /\ buyEntry' = [buyEntry EXCEPT ![h] = Null]
    /\ sellEntry' = [sellEntry EXCEPT ![h] = Null]
    /\ attempts' = [attempts EXCEPT ![h] = 0]
    /\ bookAtMatch' = [bookAtMatch EXCEPT ![h] = <<>>]

\* Handlers suspended in signTypedData: each will create a SignedOrder.
Signing == {h \in Handlers : pc[h] = "signing"}

\* Seeded fault: the order pushed to the book before signTypedData.
ReceiveQueuesUnsigned(h, b) ==
    /\ pc[h] = "idle"
    /\ \A g \in Handlers : g < h => pc[g] # "idle"
    /\ IF MissingFields(b)
       THEN /\ logged' = <<>>
            /\ Return(h, [error |-> "Missing required fields"], 400)
            /\ UNCHANGED <<orderBook, created, settled, now, quote>>
       ELSE /\ created + Cardinality(Signing) < MaxOrders
            /\ pc' = [pc EXCEPT ![h] = "signing"]
            /\ order' = [order EXCEPT ![h] = BuildOrder(b)]
            /\ orderBook' = push(orderBook, SignedOrderOf(BuildOrder(b), 0))
            /\ response' = Null
            /\ logged' = <<>>
            /\ UNCHANGED <<created, signedOrder, match, buyEntry,
                           sellEntry, settled, now, quote, attempts, bookAtMatch>>

\* POST up to the await of signTypedData: body b arrives and runs in the
\* first free slot h.
Receive(h, b) ==
    /\ pc[h] = "idle"
    /\ \A g \in Handlers : g < h => pc[g] # "idle"
    /\ IF MissingFields(b)
       THEN /\ logged' = <<>>
            /\ Return(h, [error |-> "Missing required fields"], 400)
            /\ UNCHANGED <<orderBook, created, settled, now, quote>>
       ELSE /\ created + Cardinality(Signing) < MaxOrders
            /\ pc' = [pc EXCEPT ![h] = "signing"]
            /\ order' = [order EXCEPT ![h] = BuildOrder(b)]
            /\ response' = Null
            /\ logged' = <<>>
            /\ UNCHANGED <<orderBook, created, signedOrder, match, buyEntry,
                           sellEntry, settled, now, quote, attempts, bookAtMatch>>

\* Seeded fault: the order queued unsigned by the outer catch.
SignRejectQueues(h) ==
    /\ pc[h] = "signing"
    /\ orderBook' = push(orderBook, SignedOrderOf(order[h], 0))
    /\ logged' = <<"POST /api/orders error:", "signature failed">>
    /\ Return(h, [error |-> "Internal server error"], 500)
    /\ UNCHANGED <<created, settled, now, quote>>

\* signTypedData throws: the outer catch answers 500.
SignReject(h) ==
    /\ pc[h] = "signing"
    /\ logged' = <<"POST /api/orders error:", "signature failed">>
    /\ Return(h, [error |-> "Internal server error"], 500)
    /\ UNCHANGED <<orderBook, created, settled, now, quote>>

\* Seeded fault: the book locked for the length of a settlement call, the
\* matching of any other request waiting for it.
SignResolveSerialized(h) ==
    /\ pc[h] = "signing"
    /\ \A g \in Handlers : pc[g] # "settling"
    /\ created' = created + 1
    /\ UNCHANGED <<settled, now, quote>>
    /\ LET so == SignedOrderOf(order[h], created + 1)
           m  == findMatch(so, orderBook)
       IN  IF m # Null
           THEN /\ orderBook' = splice(orderBook, indexOf(orderBook, m))
                /\ signedOrder' = [signedOrder EXCEPT ![h] = so]
                /\ match' = [match EXCEPT ![h] = m]
                /\ buyEntry' = [buyEntry EXCEPT ![h] = IF so.isBuy THEN so ELSE m]
                /\ sellEntry' = [sellEntry EXCEPT ![h] = IF so.isBuy THEN m ELSE so]
                /\ bookAtMatch' = [bookAtMatch EXCEPT ![h] = orderBook]
                /\ attempts' = [attempts EXCEPT ![h] = 1]
                /\ pc' = [pc EXCEPT ![h] = "settling"]
                /\ response' = Null
                /\ logged' = <<>>
                /\ UNCHANGED order
           ELSE /\ orderBook' = push(orderBook, so)
                /\ logged' = <<>>
                /\ Return(h, [status |-> "queued", makerAddress |-> so.maker,
                              message |-> "Order submitted to order book"],
                          200)

\* POST from the resolution of signTypedData to the await of settleMatch, or
\* to the "queued" response when findMatch returns null.
SignResolve(h) ==
    /\ pc[h] = "signing"
    /\ created' = created + 1
    /\ UNCHANGED <<settled, now, quote>>
    /\ LET so == SignedOrderOf(order[h], created + 1)
           m  == findMatch(so, orderBook)
       IN  IF m # Null
           THEN /\ orderBook' = splice(orderBook, indexOf(orderBook, m))
                /\ signedOrder' = [signedOrder EXCEPT ![h] = so]
                /\ match' = [match EXCEPT ![h] = m]
                \* isBuy ? ... : ... reads the body's isBuy, whose truthiness
                \* is order.isBuy = Boolean(isBuy)
                /\ buyEntry' = [buyEntry EXCEPT ![h] = IF so.isBuy THEN so ELSE m]
                /\ sellEntry' = [sellEntry EXCEPT ![h] = IF so.isBuy THEN m ELSE so]
                /\ bookAtMatch' = [bookAtMatch EXCEPT ![h] = orderBook]
                /\ attempts' = [attempts EXCEPT ![h] = 1]
                /\ pc' = [pc EXCEPT ![h] = "settling"]
                /\ response' = Null
                /\ logged' = <<>>
                /\ UNCHANGED order
           ELSE /\ orderBook' = push(orderBook, so)
                /\ logged' = <<>>
                /\ Return(h, [status |-> "queued", makerAddress |-> so.maker,
                              message |-> "Order submitted to order book"],
                          200)

\* The settlement authority LedgerExchange.settle, as section 4.5 and 5 of
\* the specification state it: an order is void once its expiry has passed,
\* and a pair with a void order is rejected.
Expired(o) == now \div MsPerSecond > o.expiry

AuthorityAccepts(buy, sell) == ~Expired(buy) /\ ~Expired(sell)

\* Seeded fault: the try block without its return, falling through to the
\* no-match branch.
SettleResolveFallsThrough(h) ==
    /\ pc[h] = "settling"
    /\ AuthorityAccepts(buyEntry[h], sellEntry[h])
    /\ settled' = settled \cup {buyEntry[h].id, sellEntry[h].id}
    /\ orderBook' = push(orderBook, signedOrder[h])
    /\ logged' = <<>>
    /\ Return(h, [status |-> "queued", makerAddress |-> signedOrder[h].maker,
                  message |-> "Order submitted to order book"], 200)
    /\ UNCHANGED <<created, now, quote>>

\* Seeded fault: the matched order pushed back after the settlement.
SettleResolveRequeues(h) ==
    /\ pc[h] = "settling"
    /\ AuthorityAccepts(buyEntry[h], sellEntry[h])
    /\ settled' = settled \cup {buyEntry[h].id, sellEntry[h].id}
    /\ orderBook' = push(orderBook, match[h])
    /\ logged' = <<>>
    /\ Return(h, [status |-> "settled",
                  txHash |-> <<"tx", buyEntry[h].id, sellEntry[h].id>>,
                  makerAddress |-> signedOrder[h].maker,
                  message |-> "Order matched and settled on-chain"], 200)
    /\ UNCHANGED <<created, now, quote>>

\* settleMatch resolves with the transaction hash: the settlement authority
\* has accepted and settled the pair.
SettleResolve(h) ==
    /\ pc[h] = "settling"
    /\ AuthorityAccepts(buyEntry[h], sellEntry[h])
    /\ settled' = settled \cup {buyEntry[h].id, sellEntry[h].id}
    /\ logged' = <<>>
    /\ Return(h, [status |-> "settled",
                  txHash |-> <<"tx", buyEntry[h].id, sellEntry[h].id>>,
                  makerAddress |-> signedOrder[h].maker,
                  message |-> "Order matched and settled on-chain"], 200)
    /\ UNCHANGED <<orderBook, created, now, quote>>

\* Seeded fault: the inner catch without orderBook.push(match).
SettleRejectForgetsMatch(h) ==
    /\ pc[h] = "settling"
    /\ orderBook' = push(orderBook, signedOrder[h])
    /\ logged' = <<"settle() failed:", "execution reverted">>
    /\ Return(h, [status |-> "queued", makerAddress |-> signedOrder[h].maker,
                  message |-> "Match found but on-chain settlement pending"],
              200)
    /\ UNCHANGED <<created, settled, now, quote>>

\* Seeded fault: the inner catch without orderBook.push(signedOrder).
SettleRejectForgetsIncoming(h) ==
    /\ pc[h] = "settling"
    /\ orderBook' = push(orderBook, match[h])
    /\ logged' = <<"settle() failed:", "execution reverted">>
    /\ Return(h, [status |-> "queued", makerAddress |-> signedOrder[h].maker,
                  message |-> "Match found but on-chain settlement pending"],
              200)
    /\ UNCHANGED <<created, settled, now, quote>>

\* Seeded fault: the inner catch answering as the try block does.
SettleRejectReportsSettled(h) ==
    /\ pc[h] = "settling"
    /\ orderBook' = push(push(orderBook, match[h]), signedOrder[h])
    /\ logged' = <<"settle() failed:", "execution reverted">>
    /\ Return(h, [status |-> "settled",
                  txHash |-> <<"tx", buyEntry[h].id, sellEntry[h].id>>,
                  makerAddress |-> signedOrder[h].maker,
                  message |-> "Order matched and settled on-chain"], 200)
    /\ UNCHANGED <<created, settled, now, quote>>

\* Seeded fault: the inner catch calling settleMatch again.
SettleRejectRetries(h) ==
    /\ pc[h] = "settling"
    /\ attempts' = [attempts EXCEPT ![h] = attempts[h] + 1]
    /\ response' = Null
    /\ logged' = <<>>
    /\ UNCHANGED <<orderBook, created, pc, order, signedOrder, match, buyEntry,
                   sellEntry, settled, now, quote, bookAtMatch>>

\* Errors that settleMatch throws: a revert of LedgerExchange.settle, or a
\* failure of the RPC transport.
SettleErrors == {"execution reverted", "fetch failed"}

\* Seeded fault: the inner catch queueing the incoming order first.
SettleRejectsIncomingFirst(h, err) ==
    /\ pc[h] = "settling"
    /\ orderBook' = push(push(orderBook, signedOrder[h]), match[h])
    /\ logged' = <<"settle() failed:", err>>
    /\ Return(h, [status |-> "queued", makerAddress |-> signedOrder[h].maker,
                  message |-> "Match found but on-chain settlement pending"],
              200)
    /\ UNCHANGED <<created, settled, now, quote>>

\* Seeded fault: the inner catch passing the error on to the caller.
SettleRejectsLeaking(h, err) ==
    /\ pc[h] = "settling"
    /\ orderBook' = push(push(orderBook, match[h]), signedOrder[h])
    /\ logged' = <<"settle() failed:", err>>
    /\ Return(h, [status |-> "queued", makerAddress |-> signedOrder[h].maker,
                  message |-> err],
              200)
    /\ UNCHANGED <<created, settled, now, quote>>

\* settleMatch throws err: the inner catch restores both orders, logs err
\* and answers "queued".
SettleRejects(h, err) ==
    /\ pc[h] = "settling"
    /\ orderBook' = push(push(orderBook, match[h]), signedOrder[h])
    /\ logged' = <<"settle() failed:", err>>
    /\ Return(h, [status |-> "queued", makerAddress |-> signedOrder[h].maker,
                  message |-> "Match found but on-chain settlement pending"],
              200)
    /\ UNCHANGED <<created, settled, now, quote>>

\* settleMatch throws, LedgerExchange.settle having reverted.
SettleReject(h) == SettleRejects(h, "execution reverted")

Next ==
    \/ \E h \in Handlers, b \in Bodies : Receive(h, b)
    \/ \E h \in Handlers : SignReject(h)
    \/ \E h \in Handlers : SignResolve(h)
    \/ \E h \in Handlers : SettleResolve(h)
    \/ \E h \in Handlers : SettleReject(h)

Spec == Init /\ [][Next]_vars

\* ------------------------------------------- other requests to the route

NextNegative ==
    \/ \E h \in Handlers, b \in NegativeBodies : Receive(h, b)
    \/ \E h \in Handlers : SignReject(h)
    \/ \E h \in Handlers : SignResolve(h)
    \/ \E h \in Handlers : SettleResolve(h)
    \/ \E h \in Handlers : SettleReject(h)

SpecNegative == Init /\ [][NextNegative]_vars

NextRounding ==
    \/ \E h \in Handlers, b \in RoundingBodies : Receive(h, b)
    \/ \E h \in Handlers : SignReject(h)
    \/ \E h \in Handlers : SignResolve(h)
    \/ \E h \in Handlers : SettleResolve(h)
    \/ \E h \in Handlers : SettleReject(h)

SpecRounding == Init /\ [][NextRounding]_vars

\* ---------------------------------------------------------- two users

NextUsers ==
    \/ \E h \in Handlers, b \in UserBodies : Receive(h, b)
    \/ \E h \in Handlers : SignReject(h)
    \/ \E h \in Handlers : SignResolve(h)
    \/ \E h \in Handlers : SettleResolve(h)
    \/ \E h \in Handlers : SettleReject(h)

SpecUsers == Init /\ [][NextUsers]_vars

\* ----------------------------------------------------- price conversion

\* The display prices that are converted, negative ones included.
Quotes == (0 - MaxQuote)..MaxQuote

\* The server as it starts, and a display price to convert.
InitQuote ==
    /\ orderBook = <<>>
    /\ created = 0
    /\ pc = [h \in Handlers |-> "idle"]
    /\ order = [h \in Handlers |-> Null]
    /\ signedOrder = [h \in Handlers |-> Null]
    /\ match = [h \in Handlers |-> Null]
    /\ buyEntry = [h \in Handlers |-> Null]
    /\ sellEntry = [h \in Handlers |-> Null]
    /\ response = Null
    /\ settled = {}
    /\ now = 0
    /\ attempts = [h \in Handlers |-> 0]
    /\ logged = <<>>
    /\ quote \in {[usd |-> p] : p \in Quotes}
    /\ bookAtMatch = [h \in Handlers |-> <<>>]

\* usdToUsdc applied to the display price.
ToUsdc ==
    /\ DOMAIN quote = {"usd"}
    /\ quote' = [usd |-> quote.usd, usdc |-> usdToUsdc(quote.usd)]
    /\ UNCHANGED <<orderBook, created, pc, order, signedOrder, match, buyEntry,
                   sellEntry, response, settled, now, attempts, logged,
                   bookAtMatch>>

\* usdcToUsd applied to the result of usdToUsdc.
ToUsd ==
    /\ DOMAIN quote = {"usd", "usdc"}
    /\ quote' = [usd |-> quote.usd, usdc |-> quote.usdc,
                 back |-> usdcToUsd(quote.usdc)]
    /\ UNCHANGED <<orderBook, created, pc, order, signedOrder, match, buyEntry,
                   sellEntry, response, settled, now, attempts, logged,
                   bookAtMatch>>

NextQuote == ToUsdc \/ ToUsd

SpecQuote == InitQuote /\ [][NextQuote]_vars

\* ------------------------------------------------- settlement errors

NextErrors ==
    \/ \E h \in Handlers, b \in CrossingBodies : Receive(h, b)
    \/ \E h \in Handlers : SignReject(h)
    \/ \E h \in Handlers : SignResolve(h)
    \/ \E h \in Handlers : SettleResolve(h)
    \/ \E h \in Handlers, err \in SettleErrors : SettleRejects(h, err)

SpecErrors == Init /\ [][NextErrors]_vars

\* ------------------------------------------------------------ fairness

NextFair ==
    \/ \E h \in Handlers, b \in FairBodies : Receive(h, b)
    \/ \E h \in Handlers : SignReject(h)
    \/ \E h \in Handlers : SignResolve(h)
    \/ \E h \in Handlers : SettleResolve(h)
    \/ \E h \in Handlers : SettleReject(h)

\* The promise that handler h awaits is settled: signTypedData computes
\* locally, and the settlement call is taken to return or to raise.
Settles(h) ==
    SignResolve(h) \/ SignReject(h) \/ SettleResolve(h) \/ SettleReject(h)

Fairness == \A h \in Handlers : WF_vars(Settles(h))

FairSpec == Init /\ [][NextFair]_vars /\ Fairness

\* Requests keep arriving for as long as the run takes orders.
Intake == \E h \in Handlers, b \in FairBodies : Receive(h, b)

FairIntakeSpec == FairSpec /\ WF_vars(Intake)

\* -------------------------------------------------------------- listing

\* The callback of orderBook.map in GET.  makerShort abbreviates the maker.
ListingEntry(o) ==
    [cardName   |-> o.cardName,
     side       |-> IF o.isBuy THEN "buy" ELSE "sell",
     priceUsd   |-> o.priceUsd,
     quantity   |-> ToString(o.quantity),
     makerShort |-> <<"short", o.maker>>,
     createdAt  |-> o.createdAt]

\* Seeded fault: GET listing the newest order first.
GETNewestFirst ==
    /\ LET open == [i \in 1..Len(orderBook) |->
                       ListingEntry(orderBook[Len(orderBook) + 1 - i])]
       IN  response' = [id |-> 0, http |-> 200,
                        body |-> [orders |-> open, count |-> Len(open)]]
    /\ logged' = <<>>
    /\ UNCHANGED <<orderBook, created, pc, order, signedOrder, match, buyEntry,
                   sellEntry, settled, now, quote, attempts, bookAtMatch>>

\* GET: synchronous, it runs in no handler slot.
GET ==
    /\ LET open == [i \in 1..Len(orderBook) |-> ListingEntry(orderBook[i])]
       IN  response' = [id |-> 0, http |-> 200,
                        body |-> [orders |-> open, count |-> Len(open)]]
    /\ logged' = <<>>
    /\ UNCHANGED <<orderBook, created, pc, order, signedOrder, match, buyEntry,
                   sellEntry, settled, now, quote, attempts, bookAtMatch>>

NextListing ==
    \/ \E h \in Handlers, b \in ListingBodies : Receive(h, b)
    \/ \E h \in Handlers : SignReject(h)
    \/ \E h \in Handlers : SignResolve(h)
    \/ \E h \in Handlers : SettleResolve(h)
    \/ \E h \in Handlers : SettleReject(h)
    \/ GET

SpecListing == Init /\ [][NextListing]_vars

\* ------------------------------------------------------------ the clock

\* Date.now() advances by a millisecond, or by a second more than the life
\* of an order.
LongTick == (ExpirySeconds + 1) * MsPerSecond

TickSizes == {1, LongTick}

\* Number of advances that led to now.
Ticks == (now \div LongTick) + (now % LongTick)

Tick(d) ==
    /\ Ticks < MaxTicks
    /\ now' = now + d
    /\ response' = Null
    /\ logged' = <<>>
    /\ UNCHANGED <<orderBook, created, pc, order, signedOrder, match, buyEntry,
                   sellEntry, settled, attempts, quote, bookAtMatch>>

\* A run with a moving clock takes MaxClockOrders orders.
NextClock ==
    \/ \E h \in Handlers, b \in CrossingBodies :
          created + Cardinality(Signing) < MaxClockOrders /\ Receive(h, b)
    \/ \E h \in Handlers : SignReject(h)
    \/ \E h \in Handlers : SignResolve(h)
    \/ \E h \in Handlers : SettleResolve(h)
    \/ \E h \in Handlers : SettleReject(h)
    \/ \E d \in TickSizes : Tick(d)

SpecClock == Init /\ [][NextClock]_vars

\* --------------------------------------------------------------- claims

\* The matching rule as section 4.4 and 8 of the specification state it, on a
\* buy order and a sell order.
PairRule(buy, sell) ==
    /\ buy.tokenId = sell.tokenId
    /\ buy.isBuy
    /\ ~sell.isBuy
    /\ buy.quantity = sell.quantity
    /\ buy.priceUsdc >= sell.priceUsdc

\* Resting order c and incoming order o satisfy the matching rule.
Compatible(c, o) == IF o.isBuy THEN PairRule(o, c) ELSE PairRule(c, o)

\* The object ids of the entries of a book.
Ids(book) == {book[i].id : i \in 1..Len(book)}

\* Handlers suspended in settleMatch.
Settling == {h \in Handlers : pc[h] = "settling"}

\* The orders a settlement attempt in flight holds.
Held(h) == {buyEntry[h].id, sellEntry[h].id}

\* Steps of handler h: signTypedData resolved; a match was found; the
\* settlement call succeeded; the settlement call failed.
SignResolvedStep(h) == pc[h] = "signing" /\ created' = created + 1 /\ pc'[h] # "signing"

MatchStep(h) == pc[h] = "signing" /\ pc'[h] = "settling"

SettleOkStep(h) == pc[h] = "settling" /\ pc'[h] = "idle" /\ Held(h) \subseteq settled'

SettleFailStep(h) == pc[h] = "settling" /\ pc'[h] = "idle" /\ ~(Held(h) \subseteq settled')

\* C1: every pair handed to the settlement call is a buy and a sell of the
\* same asset and quantity with buy price >= sell price, whichever of the two
\* was the incoming order.
C1_SettlementPairWellFormed ==
    \A h \in Settling : PairRule(buyEntry[h], sellEntry[h])

\* C1 witness: two attempts in flight, the incoming order being the buy in
\* one and the sell in the other.
C1_Witness ==
    \E g, h \in Settling :
        /\ signedOrder[g].isBuy /\ buyEntry[g] = signedOrder[g]
        /\ ~signedOrder[h].isBuy /\ sellEntry[h] = signedOrder[h]

\* C2: a resting order is claimed by at most one request at a time: no two
\* settlement attempts in flight hold the same order, and an order claimed
\* by an attempt is not in the book for another request to find.
C2_NoDoubleClaim ==
    /\ \A g, h \in Settling : g # h => Held(g) \cap Held(h) = {}
    /\ \A h \in Settling : Held(h) \cap Ids(orderBook) = {}
    /\ \A h \in Settling : Held(h) = {match[h].id, signedOrder[h].id}

\* C2 witness: two settlement attempts in flight at once.
C2_Witness ==
    \E g, h \in Settling : g # h /\ match[g].id # 0 /\ match[h].id # 0

\* C10: the matched resting order is out of the book when the settlement call
\* starts and for the whole time the call is in flight.
C10_MatchOutOfBookWhileSettling ==
    \A h \in Settling :
        /\ match[h].id \in Ids(bookAtMatch[h])
        /\ match[h].id \notin Ids(orderBook)

\* C10 witness: a settlement call in flight while another request has added
\* an order to the book since the match.
C10_Witness ==
    \E h \in Settling :
        /\ Ids(orderBook) \ Ids(bookAtMatch[h]) # {}
        /\ match[h].id \notin Ids(orderBook)

\* The SignedOrder a handler creates when its signTypedData resolves.
Incoming(h) == SignedOrderOf(order[h], created + 1)

\* The resting orders that satisfy the matching rule with the incoming one.
Eligible(h) == {i \in 1..Len(orderBook) : Compatible(orderBook[i], order[h])}

\* The response a step sent is a 200 with this status and message.
Answered(h, status, message) ==
    /\ response'.id = h
    /\ response'.http = 200
    /\ DOMAIN response'.body \cap {"error"} = {}
    /\ response'.body.status = status
    /\ response'.body.message = message

\* C3 as stated: after a failed settlement the set of orders in the book is
\* the set just before the match was attempted plus the incoming order.
C3_Original ==
    [][\A h \in Handlers : SettleFailStep(h) =>
          Ids(orderBook') = Ids(bookAtMatch[h]) \cup {signedOrder[h].id}]_vars

\* C3 amended: recovery adds exactly the matched order and the incoming
\* order to the book as it stands then, neither being in it and no id
\* occurring twice; when no other request has changed the book since the
\* match, the set of orders is the set just before the match plus the
\* incoming order.
C3_RecoveryRestoresBoth ==
    [][\A h \in Handlers : SettleFailStep(h) =>
          /\ Ids(orderBook') = Ids(orderBook) \cup {match[h].id, signedOrder[h].id}
          /\ Len(orderBook') = Len(orderBook) + 2
          /\ Cardinality(Ids(orderBook')) = Len(orderBook')
          /\ \A i \in 1..Len(orderBook) : orderBook'[i] = orderBook[i]
          /\ (Ids(orderBook) = Ids(bookAtMatch[h]) \ {match[h].id}
                => Ids(orderBook') = Ids(bookAtMatch[h]) \cup {signedOrder[h].id})]_vars

\* C3 witness: a failed settlement has just been recovered next to an order
\* that was resting all along.
C3_Witness ==
    /\ response.id # 0
    /\ response.http = 200
    /\ response.body.message = "Match found but on-chain settlement pending"
    /\ Len(orderBook) >= 3

\* C4 as stated: after a successful settlement the result is "settled" with
\* the reference, neither order of the pair is in the book and every other
\* order that was resting at the match is still there.
C4_Original ==
    [][\A h \in Handlers : SettleOkStep(h) =>
          /\ Answered(h, "settled", "Order matched and settled on-chain")
          /\ response'.body.txHash = <<"tx", buyEntry[h].id, sellEntry[h].id>>
          /\ signedOrder[h].id \notin Ids(orderBook')
          /\ match[h].id \notin Ids(orderBook')
          /\ Ids(bookAtMatch[h]) \ {match[h].id} \subseteq Ids(orderBook')]_vars

\* C4 amended: after a successful settlement the result is "settled" with
\* the reference and neither order of the pair is in the book; the request
\* itself takes no other order out of the book: its match removes the
\* matched order alone and its completion leaves the book as it is.
C4_SettledRemovesPairOnly ==
    [][\A h \in Handlers :
          /\ SettleOkStep(h) =>
                /\ Answered(h, "settled", "Order matched and settled on-chain")
                /\ response'.body.txHash = <<"tx", buyEntry[h].id, sellEntry[h].id>>
                /\ signedOrder[h].id \notin Ids(orderBook')
                /\ match[h].id \notin Ids(orderBook')
                /\ orderBook' = orderBook
          /\ MatchStep(h) =>
                /\ Ids(orderBook') = Ids(orderBook) \ {match'[h].id}
                /\ Len(orderBook') = Len(orderBook) - 1
                /\ signedOrder'[h].id \notin Ids(orderBook')]_vars

\* C4 witness: a settlement has just succeeded and an order that was resting
\* beside the matched one is still in the book.
C4_Witness ==
    /\ response.id # 0
    /\ response.http = 200
    /\ response.body.status = "settled"
    /\ orderBook # <<>>
    /\ Ids(orderBook) \cap settled = {}

\* C5: when the settlement call raises an error the result is "queued", not
\* an error, with the pending-settlement message, and both the incoming and
\* the previously resting order are in the book afterwards.
C5_FailureQueuesBoth ==
    [][\A h \in Handlers : SettleFailStep(h) =>
          /\ Answered(h, "queued", "Match found but on-chain settlement pending")
          /\ signedOrder[h].id \in Ids(orderBook')
          /\ match[h].id \in Ids(orderBook')
          /\ signedOrder[h].id # match[h].id]_vars

\* C5 witness: the pending-settlement answer has just been sent and the pair
\* rests in the book.
C5_Witness ==
    /\ response.id # 0
    /\ response.http = 200
    /\ response.body.message = "Match found but on-chain settlement pending"
    /\ \E i, j \in 1..Len(orderBook) : i < j /\ PairRule(orderBook[i], orderBook[j])

\* C6: when no resting order matches the incoming order the result is
\* "queued", no settlement is attempted and the book is the previous book
\* with exactly the incoming order added.
C6_NoMatchQueues ==
    [][\A h \in Handlers : SignResolvedStep(h) /\ Eligible(h) = {} =>
          /\ Answered(h, "queued", "Order submitted to order book")
          /\ pc'[h] = "idle"
          /\ settled' = settled
          /\ orderBook' = Append(orderBook, Incoming(h))]_vars

\* C6 witness: an order has just been queued behind another resting order.
C6_Witness ==
    /\ response.id # 0
    /\ response.http = 200
    /\ response.body.message = "Order submitted to order book"
    /\ Len(orderBook) >= 2
    /\ orderBook[Len(orderBook)].id = created

\* Resting order c agrees with incoming order o in everything the matching
\* rule asks except the quantity.
OnlyQuantityDiffers(c, o) ==
    /\ c.tokenId = o.tokenId
    /\ c.isBuy # o.isBuy
    /\ c.quantity # o.quantity
    /\ IF o.isBuy THEN o.priceUsdc >= c.priceUsdc ELSE c.priceUsdc >= o.priceUsdc

\* C7: an incoming order never matches a resting order of another quantity;
\* when the resting orders that cross it on the same asset all differ in
\* quantity, no settlement is attempted and the incoming order rests in the
\* book beside them.
C7_ExactQuantityOnly ==
    [][\A h \in Handlers : SignResolvedStep(h) =>
          /\ pc'[h] = "settling" => match'[h].quantity = order[h].quantity
          /\ (\A i \in 1..Len(orderBook) : orderBook[i].quantity # order[h].quantity)
                => /\ pc'[h] = "idle"
                   /\ settled' = settled
                   /\ orderBook' = Append(orderBook, Incoming(h))]_vars

\* C7 witness: two orders that differ in quantity alone rest in the book,
\* the later one just queued.
C7_Witness ==
    /\ response.id # 0
    /\ response.http = 200
    /\ response.body.message = "Order submitted to order book"
    /\ \E i \in 1..(Len(orderBook) - 1) :
          OnlyQuantityDiffers(orderBook[i], orderBook[Len(orderBook)])

\* Buy and sell price of an incoming order o and a resting order c.
BuyPrice(o, c) == IF o.isBuy THEN o.priceUsdc ELSE c.priceUsdc

SellPrice(o, c) == IF o.isBuy THEN c.priceUsdc ELSE o.priceUsdc

\* The resting orders of the same asset, the opposite side and the same
\* quantity as the incoming order.
Opposite(h) ==
    {i \in 1..Len(orderBook) :
        /\ orderBook[i].tokenId = order[h].tokenId
        /\ orderBook[i].isBuy # order[h].isBuy
        /\ orderBook[i].quantity = order[h].quantity}

\* C8: the crossing condition is inclusive: with same asset, opposite sides
\* and equal quantity, the incoming order is matched iff for some such
\* resting order the buy price is >= the sell price, and the pair matched
\* has buy price >= sell price.
C8_InclusiveCrossing ==
    [][\A h \in Handlers : SignResolvedStep(h) =>
          /\ pc'[h] = "settling" <=>
                \E i \in Opposite(h) :
                    BuyPrice(order[h], orderBook[i]) >= SellPrice(order[h], orderBook[i])
          /\ pc'[h] = "settling" =>
                /\ match'[h].id \in {orderBook[i].id : i \in Opposite(h)}
                /\ BuyPrice(order[h], match'[h]) >= SellPrice(order[h], match'[h])]_vars

\* C8 witness: a buy at exactly the resting ask is matched, and a buy one unit
\* below an ask of its asset and quantity rests in the book with that ask.
C8_Witness ==
    /\ \E h \in Settling :
          /\ signedOrder[h].isBuy
          /\ signedOrder[h].priceUsdc = match[h].priceUsdc
    /\ \E i, j \in 1..Len(orderBook) :
          /\ i < j
          /\ ~orderBook[i].isBuy /\ orderBook[j].isBuy
          /\ orderBook[i].tokenId = orderBook[j].tokenId
          /\ orderBook[i].quantity = orderBook[j].quantity
          /\ orderBook[j].priceUsdc = orderBook[i].priceUsdc - 1

\* C9: of several resting orders that satisfy the matching rule the first in
\* the book's order is selected and removed, whatever the prices; the others
\* stay in the book.
C9_FirstFit ==
    [][\A h \in Handlers : MatchStep(h) =>
          /\ Eligible(h) # {}
          /\ \E k \in Eligible(h) :
                /\ \A i \in Eligible(h) : k <= i
                /\ match'[h] = orderBook[k]
                /\ orderBook' = [i \in 1..(Len(orderBook) - 1) |->
                                    IF i < k THEN orderBook[i] ELSE orderBook[i + 1]]]_vars

\* C9 witness: the ask matched with an incoming buy was the first of two, and
\* the later one, still in the book, has the better price.
C9_Witness ==
    \E h \in Settling :
        /\ signedOrder[h].isBuy
        /\ \E i \in 1..Len(orderBook) :
              /\ orderBook[i].id \in Ids(bookAtMatch[h])
              /\ PairRule(signedOrder[h], orderBook[i])
              /\ orderBook[i].priceUsdc < match[h].priceUsdc

\* The handlers that have built an order.
Building == {h \in Handlers : pc[h] # "idle"}

\* C11 as stated: a request with a missing field, or with a display price or
\* a quantity that is not positive, is rejected before an order is built, so
\* no handler holds an order built from such a request.
C11_NonPositiveRejected ==
    \A h \in Building : order[h].priceUsd > 0 /\ order[h].quantity > 0

\* Quantity and fixed-point price of order o are positive.
Positive(o) == o.quantity > 0 /\ o.priceUsdc > 0

\* C12 as stated: every order handed to the signer, resting in the book or
\* passed to settlement has a positive quantity and a positive fixed-point
\* price.
C12_PositiveOrders ==
    /\ \A h \in Building : Positive(order[h])
    /\ \A i \in 1..Len(orderBook) : Positive(orderBook[i])
    /\ \A h \in Settling : Positive(buyEntry[h]) /\ Positive(sellEntry[h])

\* C13 as stated: no two orders built for the same maker carry the same
\* nonce, be they built back to back or by interleaved requests within one
\* clock tick.
C13_NonceUnique ==
    /\ \A g, h \in Building :
          g # h /\ order[g].maker = order[h].maker => order[g].nonce # order[h].nonce
    /\ \A h \in Building : \A i \in 1..Len(orderBook) :
          order[h].maker = orderBook[i].maker => order[h].nonce # orderBook[i].nonce
    /\ \A i, j \in 1..Len(orderBook) :
          i # j /\ orderBook[i].maker = orderBook[j].maker
             => orderBook[i].nonce # orderBook[j].nonce

\* The expiry of order o has passed.
ExpiryPassed(o) == now >= (o.expiry + 1) * MsPerSecond

Outcome(r) == IF "error" \in DOMAIN r.body THEN "rejected" ELSE r.body.status

\* The response of a step matches the outcome it reports.
WellFormed(r) ==
    /\ Outcome(r) \in {"rejected", "queued", "settled"}
    /\ Outcome(r) = "rejected" <=> r.http \in {400, 500}
    /\ Outcome(r) # "rejected" => r.http = 200

\* C14: a request is answered in the step that ends it and in no other, with
\* one of rejected, queued and settled; the awaited calls returning or
\* raising, every request ends, its slot being free again and again.
C14_OneOutcome ==
    /\ [][\A h \in Handlers :
             /\ (pc[h] # "idle" /\ pc'[h] = "idle") => response'.id = h
             /\ response'.id = h => pc'[h] = "idle" /\ WellFormed(response')]_vars
    /\ \A h \in Handlers : []<>(pc[h] = "idle")

\* C14 witness: a request has ended with the outcome settled.
C14_Witness ==
    /\ response.id \in Handlers
    /\ pc[response.id] = "idle"
    /\ Outcome(response) = "settled"

\* C15: a request calls settleMatch at most once, and is in a settlement
\* call exactly when it has made its one call.
C15_OneAttempt ==
    \A h \in Handlers :
        /\ attempts[h] <= 1
        /\ pc[h] = "settling" <=> attempts[h] = 1

\* C15 witness: a request whose settlement call failed has ended, its slot
\* in no further call.
C15_Witness ==
    /\ response.id \in Handlers
    /\ response.http = 200
    /\ response.body.message = "Match found but on-chain settlement pending"
    /\ pc[response.id] = "idle"
    /\ attempts[response.id] = 0

\* The settlement of the pair of orders i and j has just failed, both being
\* back at the end of the book.
JustFailed(i, j) ==
    /\ response.id \in Handlers
    /\ response.http = 200
    /\ response.body.message = "Match found but on-chain settlement pending"
    /\ Len(orderBook) >= 2
    /\ {orderBook[Len(orderBook) - 1].id, orderBook[Len(orderBook)].id} = {i, j}

\* A settlement call for the pair of orders i and j is under way.
Attempted(i, j) ==
    \E h \in Settling : {buyEntry[h].id, sellEntry[h].id} = {i, j}

\* C16 as stated: the settlement of a pair that failed is attempted again.
C16_PairReattempted ==
    \A i, j \in 1..MaxOrders : i < j => (JustFailed(i, j) ~> Attempted(i, j))

\* C17: while a request is in its settlement call, the signature of any
\* other request can resolve and its matching run, and any other settlement
\* call can return or raise.
C17_SettlementDoesNotSerialize ==
    \A g \in Settling : \A h \in Handlers \ {g} :
        /\ pc[h] = "signing" => ENABLED SignResolve(h)
        /\ pc[h] = "settling" => ENABLED (SettleResolve(h) \/ SettleReject(h))

\* C17 witness: a request on another token was matched against the book and
\* queued while a request is in its settlement call.
C17_Witness ==
    \E g \in Settling :
        /\ response.id \in Handlers \ {g}
        /\ response.http = 200
        /\ response.body.message = "Order submitted to order book"
        /\ orderBook # <<>>
        /\ orderBook[Len(orderBook)].tokenId # match[g].tokenId

\* Handler h takes the step.
Acts(h) == pc'[h] # pc[h] \/ response'.id = h

\* C19: a request goes from received (idle slot) to signing, from signing to
\* the end or to settling, from settling to the end; the validation error is
\* answered from received alone and with the book untouched; the book changes
\* only once the order is signed; settling is entered only with a match taken
\* from the book; a failed settlement leaves the order resting.
C19_Lifecycle ==
    [][\A h \in Handlers :
          /\ <<pc[h], pc'[h]>> \in
                {<<"idle", "idle">>, <<"idle", "signing">>,
                 <<"signing", "signing">>, <<"signing", "idle">>,
                 <<"signing", "settling">>, <<"settling", "settling">>,
                 <<"settling", "idle">>}
          /\ (response'.id = h /\ response'.http = 400)
                => pc[h] = "idle" /\ orderBook' = orderBook
          /\ (Acts(h) /\ pc[h] = "idle")
                => orderBook' = orderBook /\ created' = created
          /\ (Acts(h) /\ orderBook' # orderBook /\ pc[h] = "signing")
                => created' = created + 1
          /\ (pc[h] # "settling" /\ pc'[h] = "settling")
                => /\ signedOrder'[h].id = created'
                   /\ match'[h] # Null
                   /\ match'[h].id \in Ids(orderBook)
                   /\ match'[h].id \notin Ids(orderBook')
          /\ (response'.id = h /\ Outcome(response') = "settled")
                => pc[h] = "settling"
          /\ (pc[h] = "settling" /\ pc'[h] = "idle"
                 /\ Outcome(response') = "queued")
                => signedOrder[h].id \in Ids(orderBook')]_vars

\* C19 witness: a request whose settlement failed has ended with its order
\* resting at the end of the book, while another request, its order signed
\* and matched, is in its settlement call.
C19_Witness ==
    /\ response.id \in Handlers
    /\ response.http = 200
    /\ response.body.message = "Match found but on-chain settlement pending"
    /\ orderBook[Len(orderBook)].id \notin settled
    /\ \E g \in Settling : signedOrder[g].id > orderBook[Len(orderBook)].id

\* The response of the step is a listing.
Listed == response'.id = 0 /\ response' # Null

\* Listing entry e shows resting order o.
Shows(e, o) ==
    /\ e.cardName = o.cardName
    /\ e.side = (IF o.isBuy THEN "buy" ELSE "sell")
    /\ e.priceUsd = o.priceUsd
    /\ e.quantity = ToString(o.quantity)
    /\ e.createdAt = o.createdAt

\* C20: a listing leaves the book as it is and answers with one entry for
\* each resting order, in the order of the book, and with their number.
C20_ListingReadOnly ==
    [][Listed =>
          /\ orderBook' = orderBook
          /\ response'.http = 200
          /\ response'.body.count = Len(orderBook)
          /\ Len(response'.body.orders) = Len(orderBook)
          /\ \A i \in 1..Len(orderBook) :
                Shows(response'.body.orders[i], orderBook[i])]_vars

\* C20 witness: a listing of a book with an ask resting before a bid on
\* another token.
C20_Witness ==
    /\ response.id = 0
    /\ response # Null
    /\ response.body.count >= 2
    /\ response.body.orders[1].side = "sell"
    /\ response.body.orders[2].side = "buy"
    /\ Len(orderBook) = response.body.count

\* C23: the response to a request whose settlement call threw is "queued"
\* with the pending message and the maker of the request, whatever the error
\* that was thrown and logged.
C23_ResponseHidesReason ==
    [][\A h \in Handlers :
          (pc[h] = "settling" /\ pc'[h] = "idle" /\ logged' # <<>>)
             => response' =
                   [id |-> h, http |-> 200,
                    body |-> [status |-> "queued",
                              makerAddress |-> signedOrder[h].maker,
                              message |->
                                 "Match found but on-chain settlement pending"]]]_vars

\* C23 witness: a settlement call has failed for a reason other than a
\* revert, and the request was answered with the pending message.
C23_Witness ==
    /\ logged = <<"settle() failed:", "fetch failed">>
    /\ response.id \in Handlers
    /\ response.body.message = "Match found but on-chain settlement pending"

\* Display price p has at most six decimal places.
SixDecimals(p) == (p * UsdcScale) % UsdDenom = 0

C25_Original ==
    "usdc" \in DOMAIN quote
       => /\ quote.usdc * UsdDenom >= quote.usd * UsdcScale
          /\ (quote.usdc - 1) * UsdDenom < quote.usd * UsdcScale

\* C25: the fixed-point price is the integer nearest to the display price
\* times 1,000,000, the upper one of two equally near.
C25_NearestRounded ==
    "usdc" \in DOMAIN quote
       => /\ 2 * quote.usdc * UsdDenom - UsdDenom <= 2 * quote.usd * UsdcScale
          /\ 2 * quote.usd * UsdcScale < 2 * quote.usdc * UsdDenom + UsdDenom

\* C25 witness: a fixed-point price below the display price it stands for.
C25_Witness ==
    /\ "usdc" \in DOMAIN quote
    /\ quote.usd > 0
    /\ quote.usdc * UsdDenom < quote.usd * UsdcScale

\* The submitter and the maker of every order a handler or the book holds.
Made ==
    {<<order[h].userId, order[h].maker>> : h \in Building}
       \cup {<<orderBook[i].userId, orderBook[i].maker>> : i \in 1..Len(orderBook)}
       \cup {<<match[h].userId, match[h].maker>> : h \in Settling}
       \cup {<<signedOrder[h].userId, signedOrder[h].maker>> : h \in Settling}

OwnEligible(h) ==
    {i \in 1..Len(orderBook) :
        /\ Compatible(orderBook[i], Incoming(h))
        /\ orderBook[i].userId = order[h].userId}

\* C30: an incoming order that satisfies the matching rule with a resting
\* order of its own submitter is matched, and is matched with that order
\* when no resting order before it satisfies the rule.
C30_MakerBlind ==
    [][\A h \in Handlers :
          (SignResolvedStep(h) /\ OwnEligible(h) # {})
             => /\ pc'[h] = "settling"
                /\ \A i \in OwnEligible(h) :
                      (\A j \in 1..(i - 1) :
                          ~Compatible(orderBook[j], Incoming(h)))
                         => /\ match'[h] = orderBook[i]
                            /\ buyEntry'[h].maker = sellEntry'[h].maker]_vars

\* C30 witness: a settlement call for a pair of orders of one submitter.
C30_Witness ==
    \E h \in Settling :
        /\ buyEntry[h].userId = sellEntry[h].userId
        /\ buyEntry[h].maker = sellEntry[h].maker

\* C24: a step that answers with an error leaves the book, the orders
\* created and the orders settled as they were, is taken before a signed
\* order exists, and ends the request with nothing of it kept.
C24_ErrorLeavesBook ==
    [][\A h \in Handlers :
          (response'.id = h /\ Outcome(response') = "rejected")
             => /\ pc[h] \in {"idle", "signing"}
                /\ signedOrder[h] = Null
                /\ orderBook' = orderBook
                /\ created' = created
                /\ settled' = settled
                /\ pc'[h] = "idle"
                /\ order'[h] = Null
                /\ signedOrder'[h] = Null
                /\ match'[h] = Null]_vars

\* C24 witness: a signature has failed while an order rests in the book and
\* another request is in its settlement call.
C24_Witness ==
    /\ response.id \in Handlers
    /\ response.http = 500
    /\ orderBook # <<>>
    /\ Settling # {}

\* Number of places order i is in: positions in the book, settlement calls
\* in flight that hold it, and the settled orders.
Places(i) ==
    Cardinality({k \in 1..Len(orderBook) : orderBook[k].id = i})
       + Cardinality({h \in Settling : signedOrder[h].id = i})
       + Cardinality({h \in Settling : match[h].id = i})
       + (IF i \in settled THEN 1 ELSE 0)

\* C26: every signed order is in one place: once in the book, or held by one
\* settlement call in flight, or settled.
C26_Conservation == \A i \in 1..created : Places(i) = 1

\* C26 witness: orders rest in the book, are held by a settlement call and
\* are settled, all at once.
C26_Witness ==
    /\ created = MaxOrders
    /\ Settling # {}
    /\ settled # {}

\* C27: an order that was settled is not in the book and is held by no
\* settlement call.
C27_SettledStaysOut ==
    \A i \in settled :
        /\ i \notin Ids(orderBook)
        /\ \A h \in Settling : i \notin Held(h)

\* C27 witness: after a settlement a later order has gone through matching
\* and rests in the book.
C27_Witness ==
    /\ settled # {}
    /\ \E k \in 1..Len(orderBook) : \A i \in settled : orderBook[k].id > i

\* No two orders of the book satisfy the matching rule with each other.
NoCross(book) ==
    \A i, j \in 1..Len(book) : ~PairRule(book[i], book[j])

\* C28: a book with no two orders that satisfy the matching rule stays so in
\* every step but the recovery of a failed settlement, which leaves the
\* restored pair resting together.
C28_CrossOnlyAfterFailure ==
    [][/\ (NoCross(orderBook) /\ ~(\E h \in Handlers : SettleFailStep(h)))
          => NoCross(orderBook')
       /\ \A h \in Handlers : SettleFailStep(h) => ~NoCross(orderBook')]_vars

\* C28 witness: the pair of a failed settlement rests in the book.
C28_Witness ==
    /\ Len(orderBook) >= 2
    /\ \/ PairRule(orderBook[Len(orderBook) - 1], orderBook[Len(orderBook)])
       \/ PairRule(orderBook[Len(orderBook)], orderBook[Len(orderBook) - 1])

\* The position of order i in a book, 0 when it is not there.
PositionOf(book, i) ==
    IF i \in Ids(book) THEN CHOOSE k \in 1..Len(book) : book[k].id = i ELSE 0

\* C29: recovery puts the matched order and then the incoming order at the
\* end of the book and leaves the orders before them as they are; an order
\* that was behind the matched order at the match and still rests is now
\* before it.
C29_RecoveryAppends ==
    [][\A h \in Handlers : SettleFailStep(h) =>
          /\ orderBook' = orderBook \o <<match[h], signedOrder[h]>>
          /\ \A k \in 1..Len(orderBook) :
                PositionOf(bookAtMatch[h], orderBook[k].id)
                   > PositionOf(bookAtMatch[h], match[h].id)
                => PositionOf(orderBook', orderBook[k].id)
                      < PositionOf(orderBook', match[h].id)]_vars

\* C29 witness: the matched order of a failed settlement rests behind an
\* order younger than it.
C29_Witness ==
    /\ response.id \in Handlers
    /\ response.http = 200
    /\ response.body.message = "Match found but on-chain settlement pending"
    /\ Len(orderBook) >= 3
    /\ \E k \in 1..(Len(orderBook) - 2) :
          /\ orderBook[Len(orderBook) - 1].id < orderBook[k].id
          /\ orderBook[k].id < orderBook[Len(orderBook)].id

====
